---- MODULE Spec2Model ----
(***************************************************************************)
(* A model of the notebook nasals-2017-10-20.ipynb: the cells that load    *)
(* and filter the table, build the predictor matrix X and the label        *)
(* series Y_pandas, construct and fit the Gaussian mixture, predict the    *)
(* components and score the clustering.                                    *)
(*                                                                         *)
(* The notebook is run top to bottom, one cell after the other; a cell     *)
(* that raises ends the run (no cell holds a try/except).                  *)
(***************************************************************************)
EXTENDS Integers, Sequences, FiniteSets, TLC

(***************************************************************************)
(* Bounds of the model.                                                    *)
(***************************************************************************)
\* longest table read by the whole-notebook specification
MaxRows == 6
\* longest table read by the data-preparation specification
MaxPrepRows == 3
\* longest label sequence handed to score_clustering on its own
MaxLen == 4
\* number of states the process-global numpy generator is drawn from
MaxGlobalRng == 2

(***************************************************************************)
(* Constants of the notebook.                                              *)
(***************************************************************************)
SEED == 11215
N_COMPONENTS == 5
COVARIANCE_TYPE == "full"
FILENAME == "nasals_s03f.csv"
ContextColumn == "Following Vowel"
ContextValue == "A"
X_COL_NAMES == <<"Juncture F1_Bark", "Juncture F2_Bark", "Juncture F3_Bark">>
LabelColumn == "Nasal Segment"

\* the missing value of a numeric column (pandas' NaN); measurements are 1, 2
NaN == 0

AllColumns == {ContextColumn, LabelColumn} \cup {X_COL_NAMES[j] : j \in 1..Len(X_COL_NAMES)}

VARIABLES
    csv,                \* the file FILENAME: [cols, rows]
    pc,                 \* the cell the run is at, or "done" / "aborted"
    d,                  \* the data frame d: [cols, rows], a row is [idx, val]
    X,                  \* the predictor matrix: a sequence of feature vectors
    Y_pandas,           \* the label series: a sequence of [idx, val]
    model_frequentist,  \* the GaussianMixture object
    calls,              \* the methods invoked on model_frequentist, in order
    fit_frequentist,    \* the data frame of (nasal, component)
    log,                \* the lines logged so far
    err,                \* the exception that ended the run: [stage, kind]
    gld, hyp,           \* the arguments of score_clustering
    scored,             \* the outcome of score_clustering: [pc, log, err]
    reproX,             \* the matrix both executions of the replay fit
    exec                \* the two executions of the replay: [pc, model, preds]

vars == <<csv, pc, d, X, Y_pandas, model_frequentist, calls, fit_frequentist,
          log, err, gld, hyp, scored, reproX, exec>>

pipeVars == <<csv, pc, d, X, Y_pandas, model_frequentist, calls,
              fit_frequentist, log, err>>
scoreVars == <<gld, hyp, scored>>
reproVars == <<reproX, exec>>

(***************************************************************************)
(* Helpers on sequences.                                                   *)
(***************************************************************************)
RECURSIVE SelectRows(_, _)
\* the rows of s whose position is in the set keep, in the order of s
SelectRows(s, keep) ==
    IF s = <<>> THEN <<>>
    ELSE LET n == Len(s)
             front == SelectRows(SubSeq(s, 1, n - 1), keep)
         IN IF n \in keep THEN Append(front, s[n]) ELSE front

\* all sequences over S of length 0..n
SeqsUpTo(S, n) == UNION {[1..k -> S] : k \in 0..n}

NoError == [stage |-> "", kind |-> ""]

(***************************************************************************)
(* pandas / numpy operations the data-preparation cells use.               *)
(***************************************************************************)
\* read_csv: the rows of the file under a RangeIndex 0..n-1
read_csv(file) ==
    [cols |-> file.cols,
     rows |-> [i \in 1..Len(file.rows) |-> [idx |-> i - 1, val |-> file.rows[i]]]]

\* d[d[col] == value]: boolean-mask selection keeps the rows, index and order
MaskEq(df, col, value) ==
    [cols |-> df.cols,
     rows |-> SelectRows(df.rows, {i \in 1..Len(df.rows) : df.rows[i].val[col] = value})]

\* variant: how='all', a row is dropped only when all the named columns are
\* missing in it
dropnaHowAll(df, names) ==
    [cols |-> df.cols,
     rows |-> SelectRows(df.rows,
                 {i \in 1..Len(df.rows) :
                     \E j \in 1..Len(names) : df.rows[i].val[names[j]] # NaN})]

\* d.dropna(axis=0, how='any', subset=names): drops a row when any of the
\* named columns is missing in it; keeps the index and the order
dropna(df, names) ==
    [cols |-> df.cols,
     rows |-> SelectRows(df.rows,
                 {i \in 1..Len(df.rows) :
                     \A j \in 1..Len(names) : df.rows[i].val[names[j]] # NaN})]

\* stack((d[c].values for c in names), axis=1): one feature vector per row
stack(df, names) ==
    [i \in 1..Len(df.rows) |-> [j \in 1..Len(names) |-> df.rows[i].val[names[j]]]]

\* d[col] as a Series: the values under the frame's index
Column(df, col) ==
    [i \in 1..Len(df.rows) |-> [idx |-> df.rows[i].idx, val |-> df.rows[i].val[col]]]

(***************************************************************************)
(* sklearn.mixture.GaussianMixture, as far as the notebook uses it.  The   *)
(* EM optimiser is a deterministic function of the matrix and of the       *)
(* centres the seeding step draws; the fitted parameters are represented   *)
(* by those centres.                                                       *)
(***************************************************************************)
\* the constructor stores its hyperparameters and validates nothing
GaussianMixture(n_components, covariance_type, random_state) ==
    [n_components |-> n_components,
     covariance_type |-> covariance_type,
     seeded |-> random_state.seeded,
     seed |-> random_state.seed,
     fitted |-> FALSE,
     n_features |-> 0,
     means |-> <<>>]

\* the object before the constructing cell has run
NoModel ==
    [n_components |-> 0, covariance_type |-> "", seeded |-> FALSE, seed |-> 0,
     fitted |-> FALSE, n_features |-> 0, means |-> <<>>]

\* random_state=None: the process-global generator, whose state the run
\* does not control
RandomStateNone == [seeded |-> FALSE, seed |-> 0]

\* random_state=SEED
RandomState == [seeded |-> TRUE, seed |-> SEED]

\* model_frequentist = GaussianMixture(n_components=N_COMPONENTS, ...)
ConstructModelUnseeded == GaussianMixture(N_COMPONENTS, COVARIANCE_TYPE, RandomStateNone)

ConstructModel == GaussianMixture(N_COMPONENTS, COVARIANCE_TYPE, RandomState)

\* check_random_state: a fresh generator from an integer seed, the global
\* one otherwise; the states the generator may be in when fit draws from it
RngStates(m) ==
    IF m.seeded THEN {m.seed} ELSE {m.seed + g : g \in 0..(MaxGlobalRng - 1)}

\* fit validates the matrix: at least one sample, and no fewer samples than
\* components
FitRejects(m, matrix) == Len(matrix) < 1 \/ Len(matrix) < m.n_components

\* the seeding step draws n_components samples of the matrix as centres
InitCentres(matrix, n, r) ==
    [k \in 1..n |-> matrix[((r + k) % Len(matrix)) + 1]]

\* fit(X) with the generator in state r; the matrix is not modified
fit(m, matrix, r) ==
    [m EXCEPT !.fitted = TRUE,
              !.n_features = Len(matrix[1]),
              !.means = InitCentres(matrix, m.n_components, r)]

RECURSIVE SumTo(_, _)
\* f[1] + ... + f[n]
SumTo(f, n) == IF n = 0 THEN 0 ELSE f[n] + SumTo(f, n - 1)

\* squared distance of a sample to a centre
Dist(x, c) == SumTo([j \in 1..Len(x) |-> (x[j] - c[j]) * (x[j] - c[j])], Len(x))

\* argmax over the components of the posterior responsibility of one sample:
\* the first component whose centre is nearest (numpy's argmax takes the
\* first maximum); components are numbered from 0
PredictRow(m, x) ==
    (CHOOSE k \in 1..Len(m.means) :
        /\ \A k2 \in 1..Len(m.means) : Dist(x, m.means[k]) <= Dist(x, m.means[k2])
        /\ \A k2 \in 1..(k - 1) : Dist(x, m.means[k2]) > Dist(x, m.means[k])) - 1

\* the exception predict / score raise for this model and matrix, "" if none
QueryError(m, matrix) ==
    IF ~m.fitted THEN "NotFitted"
    ELSE IF \E i \in 1..Len(matrix) : Len(matrix[i]) # m.n_features THEN "DimensionMismatch"
    ELSE ""

\* predict(X): one component index per row, in row order
predict(m, matrix) == [i \in 1..Len(matrix) |-> PredictRow(m, matrix[i])]

(***************************************************************************)
(* bcubed.ClusterScore: element-averaged B-Cubed precision, recall and F1. *)
(* Fractions are kept exact: every per-element ratio is stored multiplied  *)
(* by Scale(n), the least common multiple of 1..n, so that it is a whole   *)
(* number, and F1 is a pair <<numerator, denominator>>.                    *)
(***************************************************************************)
RECURSIVE Gcd(_, _)
Gcd(a, b) == IF b = 0 THEN a ELSE Gcd(b, a % b)

RECURSIVE Scale(_)
\* the least common multiple of 1..n
Scale(n) == IF n <= 1 THEN 1 ELSE (Scale(n - 1) * n) \div Gcd(Scale(n - 1), n)

\* variant: the cluster-mates of element e without e itself
MatesExclusive(labels, e) == {i \in 1..Len(labels) : labels[i] = labels[e]} \ {e}

\* the cluster-mates of element e under a labelling, e included
Mates(labels, e) == {i \in 1..Len(labels) : labels[i] = labels[e]}

\* variant: the labellings are paired up to the shorter one, as zip does
ClusterScoreZip(g, h) ==
    LET n == IF Len(g) < Len(h) THEN Len(g) ELSE Len(h)
        gg == SubSeq(g, 1, n)
        hh == SubSeq(h, 1, n)
        s == Scale(n)
        inter(e) == Cardinality(Mates(gg, e) \cap Mates(hh, e))
    IN IF n = 0 THEN [err |-> "ZeroDivision", n |-> 0, scale |-> 1, sumP |-> 0, sumR |-> 0]
       ELSE [err |-> "", n |-> n, scale |-> s,
             sumP |-> SumTo([e \in 1..n |-> (inter(e) * s) \div Cardinality(Mates(hh, e))], n),
             sumR |-> SumTo([e \in 1..n |-> (inter(e) * s) \div Cardinality(Mates(gg, e))], n)]

\* ClusterScore(gld, hyp): the sums over the elements of precision and of
\* recall (times scale), or the error the computation ends with
ClusterScore(g, h) ==
    LET n == Len(g)
        s == Scale(n)
        inter(e) == Cardinality(Mates(g, e) \cap Mates(h, e))
    IN IF Len(g) # Len(h)
       THEN [err |-> "LengthMismatch", n |-> 0, scale |-> 1, sumP |-> 0, sumR |-> 0]
       ELSE IF n = 0 \/ \E e \in 1..n : Mates(g, e) = {} \/ Mates(h, e) = {}
       THEN [err |-> "ZeroDivision", n |-> n, scale |-> s, sumP |-> 0, sumR |-> 0]
       ELSE [err |-> "", n |-> n, scale |-> s,
             sumP |-> SumTo([e \in 1..n |-> (inter(e) * s) \div Cardinality(Mates(h, e))], n),
             sumR |-> SumTo([e \in 1..n |-> (inter(e) * s) \div Cardinality(Mates(g, e))], n)]

\* f1(): the harmonic mean 2PR/(P+R) of P = sumP/(n*scale), R = sumR/(n*scale),
\* and 0 when both are 0
F1(cs) ==
    IF cs.sumP + cs.sumR = 0 THEN <<0, 1>>
    ELSE <<2 * cs.sumP * cs.sumR, cs.n * cs.scale * (cs.sumP + cs.sumR)>>

\* normalized_mutual_info_score checks that both labellings have the same
\* number of samples
NmiRejects(g, h) == Len(g) # Len(h)

(***************************************************************************)
(* score_clustering(gld, hyp, logger): the lines it logs and the exception *)
(* it ends with ("" if none).  A line is [msg, args]; the value of the     *)
(* B-Cubed line is the pair F1, the value of the mutual-information line   *)
(* (a logarithm) is not represented.                                       *)
(***************************************************************************)
\* variant: the hypothesis is read one position late
score_clusteringShifted(g, h) ==
    LET hs == [i \in 1..Len(h) |-> h[(i % Len(h)) + 1]]
        cs == ClusterScore(g, hs)
    IN IF cs.err # "" THEN [log |-> <<>>, err |-> cs.err]
       ELSE [log |-> <<[msg |-> "B-Cubed F1", args |-> F1(cs)],
                       [msg |-> "Normalized MI", args |-> <<>>]>>, err |-> ""]

\* variant: the gold labels are scored against themselves
score_clusteringSelf(g, h) ==
    LET cs == ClusterScore(g, g)
    IN IF cs.err # "" THEN [log |-> <<>>, err |-> cs.err]
       ELSE [log |-> <<[msg |-> "B-Cubed F1", args |-> F1(cs)],
                       [msg |-> "Normalized MI", args |-> <<>>]>>, err |-> ""]

score_clustering(g, h) ==
    LET cs == ClusterScore(g, h)
        line1 == [msg |-> "B-Cubed F1", args |-> F1(cs)]
    IN IF cs.err # "" THEN [log |-> <<>>, err |-> cs.err]
       ELSE IF NmiRejects(g, h) THEN [log |-> <<line1>>, err |-> "LengthMismatch"]
       ELSE [log |-> <<line1, [msg |-> "Normalized MI", args |-> <<>>]>>, err |-> ""]

\* variant: the components are a Series of their own (RangeIndex) and are
\* matched to the labels by index label; -1 stands for a missing component
DataFrameByLabel(series, arr) ==
    [i \in 1..Len(series) |->
        [idx |-> series[i].idx, nasal |-> series[i].val,
         component |-> IF series[i].idx + 1 <= Len(arr) THEN arr[series[i].idx + 1] ELSE -1]]

\* DataFrame({"nasal": series, "component": arr}): the frame takes the index
\* of the series and the array is laid beside it by position
DataFrame(series, arr) ==
    [i \in 1..Len(series) |->
        [idx |-> series[i].idx, nasal |-> series[i].val, component |-> arr[i]]]

(***************************************************************************)
(* The inputs.                                                             *)
(***************************************************************************)
\* one row of the file, all columns present
Rec(ctx, f1, f2, f3, seg) ==
    [c \in AllColumns |->
        IF c = ContextColumn THEN ctx
        ELSE IF c = X_COL_NAMES[1] THEN f1
        ELSE IF c = X_COL_NAMES[2] THEN f2
        ELSE IF c = X_COL_NAMES[3] THEN f3
        ELSE seg]

\* a file whose header lacks the columns in missing
File(rows, missing) ==
    [cols |-> AllColumns \ missing,
     rows |-> [i \in 1..Len(rows) |-> [c \in AllColumns \ missing |-> rows[i][c]]]]

\* the rows the whole-notebook specification builds its files from
SampleRecords ==
    {Rec("A", 1, 1, 1, "M"), Rec("A", 2, 2, 2, "N"),
     Rec("I", 1, 1, 1, "N"), Rec("A", 1, NaN, 2, "M")}

\* the headers it tries: complete, or lacking one column
SampleMissing == {{}, {ContextColumn}, {X_COL_NAMES[2]}, {LabelColumn}}

\* the rows the data-preparation specification builds its files from
PrepRecords ==
    {Rec(ctx, f1, f2, f3, "N") :
        ctx \in {"A", "I"}, f1 \in {NaN, 1}, f2 \in {NaN, 2}, f3 \in {NaN, 1}}

NoFrame == [cols |-> {}, rows |-> <<>>]

PipeStart ==
    /\ pc = "load"
    /\ d = NoFrame
    /\ X = <<>>
    /\ Y_pandas = <<>>
    /\ model_frequentist = NoModel
    /\ calls = <<>>
    /\ fit_frequentist = <<>>
    /\ log = <<>>
    /\ err = NoError

\* the notebook is not run
PipeIdle ==
    /\ csv = [cols |-> AllColumns, rows |-> <<>>]
    /\ pc = "idle"
    /\ d = NoFrame
    /\ X = <<>>
    /\ Y_pandas = <<>>
    /\ model_frequentist = NoModel
    /\ calls = <<>>
    /\ fit_frequentist = <<>>
    /\ log = <<>>
    /\ err = NoError

ScoreIdle ==
    /\ gld = <<>>
    /\ hyp = <<>>
    /\ scored = [pc |-> "idle", log |-> <<>>, err |-> ""]

ReproIdle ==
    /\ reproX = <<>>
    /\ exec = [e \in 1..2 |-> [pc |-> "idle", model |-> NoModel, preds |-> <<>>]]

(***************************************************************************)
(* The cells.                                                              *)
(***************************************************************************)
\* a cell raised: the run ends at this cell
Abort(kind) ==
    /\ pc' = "aborted"
    /\ err' = [stage |-> pc, kind |-> kind]

\* variant: the filtered frame is not assigned back to d
LoadCellKeepsAll ==
    /\ pc = "load"
    /\ LET frame == read_csv(csv)
       IN IF ContextColumn \notin frame.cols
          THEN /\ d' = frame
               /\ Abort("Configuration")
          ELSE /\ d' = frame
               /\ pc' = "predictors"
               /\ err' = err
    /\ UNCHANGED <<csv, X, Y_pandas, model_frequentist, calls, fit_frequentist, log>>
    /\ UNCHANGED <<scoreVars, reproVars>>

\* "Loads the data": read_csv, then the context filter
LoadCell ==
    /\ pc = "load"
    /\ LET frame == read_csv(csv)
       IN IF ContextColumn \notin frame.cols
          THEN /\ d' = frame
               /\ Abort("Configuration")
          ELSE /\ d' = MaskEq(frame, ContextColumn, ContextValue)
               /\ pc' = "predictors"
               /\ err' = err
    /\ UNCHANGED <<csv, X, Y_pandas, model_frequentist, calls, fit_frequentist, log>>
    /\ UNCHANGED <<scoreVars, reproVars>>

\* "Constructs the predictor matrix": dropna, stack, the size line
PredictorCell ==
    /\ pc = "predictors"
    /\ IF \E j \in 1..Len(X_COL_NAMES) : X_COL_NAMES[j] \notin d.cols
       THEN /\ Abort("Configuration")
            /\ UNCHANGED <<d, X, log>>
       ELSE /\ d' = dropna(d, X_COL_NAMES)
            /\ X' = stack(d', X_COL_NAMES)
            /\ log' = Append(log, [msg |-> "Size of dataset",
                                   args |-> <<Len(X'), Len(X_COL_NAMES)>>])
            /\ pc' = "labels"
            /\ err' = err
    /\ UNCHANGED <<csv, Y_pandas, model_frequentist, calls, fit_frequentist>>
    /\ UNCHANGED <<scoreVars, reproVars>>

\* "Constructs the prediction array": Y_pandas = d["Nasal Segment"]
LabelCell ==
    /\ pc = "labels"
    /\ IF LabelColumn \notin d.cols
       THEN /\ Abort("Configuration")
            /\ UNCHANGED Y_pandas
       ELSE /\ Y_pandas' = Column(d, LabelColumn)
            /\ pc' = "construct"
            /\ err' = err
    /\ UNCHANGED <<csv, d, X, model_frequentist, calls, fit_frequentist, log>>
    /\ UNCHANGED <<scoreVars, reproVars>>

\* "Constructs empty model"
ConstructCell ==
    /\ pc = "construct"
    /\ model_frequentist' = ConstructModel
    /\ calls' = Append(calls, "__init__")
    /\ pc' = "fit"
    /\ UNCHANGED <<csv, d, X, Y_pandas, fit_frequentist, log, err>>
    /\ UNCHANGED <<scoreVars, reproVars>>

\* variant: the exception of fit is caught and the run goes on
FitCellSwallows ==
    /\ pc = "fit"
    /\ \E r \in RngStates(model_frequentist) :
          IF FitRejects(model_frequentist, X)
          THEN /\ calls' = Append(calls, "fit")
               /\ UNCHANGED <<model_frequentist, log>>
          ELSE /\ model_frequentist' = fit(model_frequentist, X, r)
               /\ calls' = calls \o <<"fit", "score">>
               /\ log' = Append(log, [msg |-> "Resubstitution log-likelihood", args |-> <<>>])
    /\ pc' = "define"
    /\ UNCHANGED <<csv, d, X, Y_pandas, fit_frequentist, err>>
    /\ UNCHANGED <<scoreVars, reproVars>>

\* "Fits the model": fit(X), then the line with score(X); the value of the
\* log-likelihood (a logarithm) is not represented
FitCell ==
    /\ pc = "fit"
    /\ \E r \in RngStates(model_frequentist) :
          IF FitRejects(model_frequentist, X)
          THEN /\ calls' = Append(calls, "fit")
               /\ Abort("InsufficientData")
               /\ UNCHANGED <<model_frequentist, log>>
          ELSE LET fitted == fit(model_frequentist, X, r)
                   qe == QueryError(fitted, X)
               IN /\ model_frequentist' = fitted
                  /\ calls' = calls \o <<"fit", "score">>
                  /\ IF qe # ""
                     THEN /\ Abort(qe)
                          /\ log' = log
                     ELSE /\ log' = Append(log, [msg |-> "Resubstitution log-likelihood",
                                                 args |-> <<>>])
                          /\ pc' = "define"
                          /\ err' = err
    /\ UNCHANGED <<csv, d, X, Y_pandas, fit_frequentist>>
    /\ UNCHANGED <<scoreVars, reproVars>>

\* "Defines a method for scoring": def score_clustering
DefineCell ==
    /\ pc = "define"
    /\ pc' = "predict"
    /\ UNCHANGED <<csv, d, X, Y_pandas, model_frequentist, calls, fit_frequentist, log, err>>
    /\ UNCHANGED <<scoreVars, reproVars>>

\* what the predicting cell does once predict(X) has returned comp
PredictTail(comp) ==
    IF Len(comp) # Len(Y_pandas)
    THEN /\ Abort("LengthMismatch")
         /\ UNCHANGED <<fit_frequentist, log, scoreVars>>
    ELSE LET frame == DataFrame(Y_pandas, comp)
             g == [i \in 1..Len(frame) |-> frame[i].nasal]
             h == [i \in 1..Len(frame) |-> frame[i].component]
             res == score_clustering(g, h)
         IN /\ fit_frequentist' = frame
            /\ gld' = g
            /\ hyp' = h
            /\ scored' = [pc |-> "returned", log |-> res.log, err |-> res.err]
            /\ log' = log \o res.log
            /\ IF res.err # ""
               THEN Abort(res.err)
               ELSE /\ pc' = "done"
                    /\ err' = err

\* variant: the components come from fit_predict, which fits again
PredictCellRefits ==
    /\ pc = "predict"
    /\ \E r \in RngStates(model_frequentist) :
          /\ model_frequentist' = fit(model_frequentist, X, r)
          /\ calls' = calls \o <<"fit", "predict">>
          /\ PredictTail(predict(model_frequentist', X))
    /\ UNCHANGED <<csv, d, X, Y_pandas, reproVars>>

\* "Predicts the components": predict(X), the frame of labels and
\* components, and the call of score_clustering on its two columns
PredictCell ==
    /\ pc = "predict"
    /\ calls' = Append(calls, "predict")
    /\ LET qe == QueryError(model_frequentist, X)
       IN IF qe # ""
          THEN /\ Abort(qe)
               /\ UNCHANGED <<fit_frequentist, log, scoreVars>>
          ELSE PredictTail(predict(model_frequentist, X))
    /\ UNCHANGED <<csv, d, X, Y_pandas, model_frequentist, reproVars>>

Init ==
    /\ csv \in {File(rows, missing) :
                  rows \in SeqsUpTo(SampleRecords, MaxRows), missing \in SampleMissing}
    /\ PipeStart
    /\ ScoreIdle
    /\ ReproIdle

Next ==
    \/ LoadCell
    \/ PredictorCell
    \/ LabelCell
    \/ ConstructCell
    \/ FitCell
    \/ DefineCell
    \/ PredictCell

Spec == Init /\ [][Next]_vars

\* the data-preparation cells alone, on every table over PrepRecords
InitPrep ==
    /\ csv \in {File(rows, {}) : rows \in SeqsUpTo(PrepRecords, MaxPrepRows)}
    /\ PipeStart
    /\ ScoreIdle
    /\ ReproIdle

NextPrep ==
    \/ LoadCell
    \/ PredictorCell
    \/ LabelCell

SpecPrep == InitPrep /\ [][NextPrep]_vars

(***************************************************************************)
(* score_clustering on its own, on every pair of label sequences.          *)
(***************************************************************************)
\* the gold labels: the three nasals
GoldLabels == {"M", "N", "NG"}

\* the hypothesised labels: the component indices
ComponentIds == 0..(N_COMPONENTS - 1)

InitScore ==
    /\ gld \in SeqsUpTo(GoldLabels, MaxLen)
    /\ hyp \in SeqsUpTo(ComponentIds, MaxLen)
    /\ scored = [pc |-> "call", log |-> <<>>, err |-> ""]
    /\ PipeIdle
    /\ ReproIdle

ScoreCall ==
    /\ scored.pc = "call"
    /\ LET res == score_clustering(gld, hyp)
       IN scored' = [pc |-> "returned", log |-> res.log, err |-> res.err]
    /\ UNCHANGED <<gld, hyp, pipeVars, reproVars>>

NextScore == ScoreCall

SpecScore == InitScore /\ [][NextScore]_vars

(***************************************************************************)
(* Two executions of construct, fit, predict, predict on one matrix.       *)
(***************************************************************************)
ReproVectors == {<<1, 1, 1>>, <<2, 2, 2>>, <<1, 2, 1>>}

InitRepro ==
    /\ reproX \in SeqsUpTo(ReproVectors, MaxRows)
    /\ exec = [e \in 1..2 |-> [pc |-> "construct", model |-> NoModel, preds |-> <<>>]]
    /\ PipeIdle
    /\ ScoreIdle

ReplayConstruct(e) ==
    /\ exec[e].pc = "construct"
    /\ exec' = [exec EXCEPT ![e].model = ConstructModel, ![e].pc = "fit"]
    /\ UNCHANGED <<reproX, pipeVars, scoreVars>>

ReplayFit(e) ==
    /\ exec[e].pc = "fit"
    /\ \E r \in RngStates(exec[e].model) :
          IF FitRejects(exec[e].model, reproX)
          THEN exec' = [exec EXCEPT ![e].pc = "aborted"]
          ELSE exec' = [exec EXCEPT ![e].model = fit(exec[e].model, reproX, r),
                                    ![e].pc = "predict"]
    /\ UNCHANGED <<reproX, pipeVars, scoreVars>>

ReplayPredict(e) ==
    /\ exec[e].pc = "predict"
    /\ QueryError(exec[e].model, reproX) = ""
    /\ exec' = [exec EXCEPT
                  ![e].preds = Append(@, predict(exec[e].model, reproX)),
                  ![e].pc = IF Len(exec[e].preds) >= 1 THEN "done" ELSE "predict"]
    /\ UNCHANGED <<reproX, pipeVars, scoreVars>>

NextRepro ==
    \/ \E e \in 1..2 : ReplayConstruct(e)
    \/ \E e \in 1..2 : ReplayFit(e)
    \/ \E e \in 1..2 : ReplayPredict(e)

SpecRepro == InitRepro /\ [][NextRepro]_vars

(***************************************************************************)
(* What the claims speak of.                                               *)
(***************************************************************************)
\* the positions of the rows of a file with the required context value and
\* no missing predictor
Eligible(file) ==
    {i \in 1..Len(file.rows) :
        /\ file.rows[i][ContextColumn] = ContextValue
        /\ \A j \in 1..Len(X_COL_NAMES) : file.rows[i][X_COL_NAMES[j]] # NaN}

\* the predictors of a row of the file
Features(row) == [j \in 1..Len(X_COL_NAMES) |-> row[X_COL_NAMES[j]]]

\* the header has the columns the two filters read
FilterColumnsPresent ==
    ContextColumn \in csv.cols /\ \A j \in 1..Len(X_COL_NAMES) : X_COL_NAMES[j] \in csv.cols

\* both label sequences induce the same partition of the positions
SamePartition(g, h) ==
    /\ Len(g) = Len(h)
    /\ \A i, j \in 1..Len(g) : (g[i] = g[j]) <=> (h[i] = h[j])

\* the number of clusters of a labelling
ClusterCount(labels) == Cardinality({labels[i] : i \in 1..Len(labels)})

\* the messages of the lines that report a fit score or a clustering score
ScoreMessages == {"Resubstitution log-likelihood", "B-Cubed F1", "Normalized MI"}

NoScoreLogged == \A i \in 1..Len(log) : log[i].msg \notin ScoreMessages

\* C1: after data preparation the Feature Matrix row count equals the Gold
\* Label Sequence length, and both equal the number of source rows whose
\* "Following Vowel" is "A" and whose three Juncture F*_Bark values are
\* all present.
C1_RowCounts ==
    /\ pc = "labels" => Len(X) = Cardinality(Eligible(csv))
    /\ pc = "construct" =>
          /\ Len(X) = Len(Y_pandas)
          /\ Len(X) = Cardinality(Eligible(csv))

\* a table of three rows: one kept, one dropped for its context, one dropped
\* for a missing third predictor only
C1_Witness ==
    /\ pc = "construct"
    /\ Len(csv.rows) = 3
    /\ Len(X) = 1
    /\ Len(Y_pandas) = 1
    /\ \E i \in 1..3 : csv.rows[i][ContextColumn] # ContextValue
    /\ \E i \in 1..3 :
          /\ csv.rows[i][ContextColumn] = ContextValue
          /\ csv.rows[i][X_COL_NAMES[1]] # NaN
          /\ csv.rows[i][X_COL_NAMES[2]] # NaN
          /\ csv.rows[i][X_COL_NAMES[3]] = NaN

\* C2: when the run is done, the eligible records are in the frame in the
\* order of the file, and at every position i the row of X, the gold label
\* and the hypothesised label handed to score_clustering all come from the
\* source record the frame's index names.
C2_Aligned ==
    pc = "done" =>
        LET n == Len(fit_frequentist)
        IN /\ Len(X) = n /\ Len(gld) = n /\ Len(hyp) = n
           /\ {fit_frequentist[i].idx + 1 : i \in 1..n} = Eligible(csv)
           /\ \A i, j \in 1..n : i < j => fit_frequentist[i].idx < fit_frequentist[j].idx
           /\ \A i \in 1..n :
                 LET src == csv.rows[fit_frequentist[i].idx + 1]
                 IN /\ X[i] = Features(src)
                    /\ gld[i] = src[LabelColumn]
                    /\ hyp[i] = PredictRow(model_frequentist, Features(src))

\* a finished run in which a row was dropped before a kept one, with two
\* different gold labels and two different components
C2_Witness ==
    /\ pc = "done"
    /\ \E i \in 1..Len(fit_frequentist) : fit_frequentist[i].idx # i - 1
    /\ ClusterCount(gld) >= 2
    /\ ClusterCount(hyp) >= 2

\* C3: for a non-empty gold sequence and a hypothesis that induces the same
\* partition, score_clustering reports a B-Cubed F1 of exactly 1.
C3_SamePartitionF1One ==
    (scored.pc = "returned" /\ Len(gld) > 0 /\ SamePartition(gld, hyp)) =>
        /\ scored.err = ""
        /\ scored.log[1].msg = "B-Cubed F1"
        /\ scored.log[1].args[1] = scored.log[1].args[2]

\* gold = [M,M,N,N], hypothesis = [0,0,1,1] scored 1
C3_Witness ==
    /\ scored.pc = "returned"
    /\ gld = <<"M", "M", "N", "N">>
    /\ hyp = <<0, 0, 1, 1>>
    /\ scored.log[1].args[1] = scored.log[1].args[2]

\* C4: when some gold cluster has more than one element and the hypothesis
\* puts every element in a cluster of its own, the B-Cubed F1 is below 1:
\* every precision is 1, the recall of e is 1/|gold-mates of e|, so that
\* recall is k/n for k gold clusters and F1 is 2k/(n+k).
C4_SingletonsBelowOne ==
    (/\ scored.pc = "returned"
     /\ Len(gld) = Len(hyp)
     /\ ClusterCount(hyp) = Len(hyp)
     /\ ClusterCount(gld) < Len(gld)) =>
        /\ scored.err = ""
        /\ scored.log[1].msg = "B-Cubed F1"
        /\ scored.log[1].args[1] < scored.log[1].args[2]
        /\ scored.log[1].args[1] * (Len(gld) + ClusterCount(gld))
              = scored.log[1].args[2] * 2 * ClusterCount(gld)

\* gold = [M,M,N,N] against four singletons
C4_Witness ==
    /\ scored.pc = "returned"
    /\ gld = <<"M", "M", "N", "N">>
    /\ hyp = <<0, 1, 2, 3>>
    /\ scored.err = ""
    /\ scored.log[1].args[1] < scored.log[1].args[2]

ZeroRows == FilterColumnsPresent /\ Eligible(csv) = {}

\* nothing of fitting, predicting or scoring has been produced
NothingFitted ==
    /\ ~model_frequentist.fitted
    /\ NoScoreLogged
    /\ fit_frequentist = <<>>
    /\ scored.pc = "idle"

\* C6 as stated: if zero rows survive filtering, the run fails with an
\* InsufficientData error, the model is never fitted and no fit score,
\* prediction or clustering score is produced.
C6_AsStated ==
    ZeroRows =>
        /\ NothingFitted
        /\ pc # "done"
        /\ pc = "aborted" => err.kind = "InsufficientData"

\* C6 as amended: if zero rows survive filtering, the run fails, the model
\* is never fitted and no fit score, prediction or clustering score is
\* produced; the error is InsufficientData, raised by fit, when the file has
\* the label column, and Configuration, raised by the label cell, when it
\* has not.
C6_ZeroRowsFail ==
    ZeroRows =>
        /\ NothingFitted
        /\ pc # "done"
        /\ pc = "aborted" \/ ENABLED Next
        /\ pc = "aborted" =>
              IF LabelColumn \in csv.cols
              THEN err = [stage |-> "fit", kind |-> "InsufficientData"]
              ELSE err = [stage |-> "labels", kind |-> "Configuration"]

\* a file whose rows are all dropped, one for its context and one for a
\* missing predictor, ended in fit's InsufficientData after the size line
C6_Witness ==
    /\ ZeroRows
    /\ Len(csv.rows) >= 2
    /\ \E i \in 1..Len(csv.rows) : csv.rows[i][ContextColumn] # ContextValue
    /\ \E i \in 1..Len(csv.rows) : csv.rows[i][X_COL_NAMES[2]] = NaN
    /\ pc = "aborted"
    /\ err = [stage |-> "fit", kind |-> "InsufficientData"]
    /\ Len(log) = 1
    /\ log[1].args[1] = 0

\* C7: for non-empty sequences of equal length score_clustering ends
\* without a division by zero and reports a B-Cubed F1 that is a fraction
\* between 0 and 1; for gold = [a,a,b,b] against hypothesis = [x,y,x,y]
\* the value is 1/2, below 1.
C7_NoZeroDivision ==
    (scored.pc = "returned" /\ Len(gld) = Len(hyp) /\ Len(gld) > 0) =>
        /\ scored.err = ""
        /\ Len(scored.log) = 2
        /\ scored.log[1].msg = "B-Cubed F1"
        /\ scored.log[1].args[2] > 0
        /\ scored.log[1].args[1] >= 0
        /\ scored.log[1].args[1] <= scored.log[1].args[2]
        /\ (/\ Len(gld) = 4
            /\ SamePartition(gld, <<1, 1, 2, 2>>)
            /\ SamePartition(hyp, <<1, 2, 1, 2>>)) =>
               /\ scored.log[1].args[1] < scored.log[1].args[2]
               /\ 2 * scored.log[1].args[1] = scored.log[1].args[2]

\* the scrambled pairing was scored, below 1
C7_Witness ==
    /\ scored.pc = "returned"
    /\ gld = <<"M", "M", "N", "N">>
    /\ hyp = <<0, 1, 0, 1>>
    /\ scored.err = ""
    /\ scored.log[1].args[1] < scored.log[1].args[2]

\* a single global cluster on both sides was scored
C7_WitnessOneCluster ==
    /\ scored.pc = "returned"
    /\ gld = <<"M", "M", "M">>
    /\ hyp = <<0, 0, 0>>
    /\ scored.err = ""

StageOrder(p) ==
    CASE p = "load" -> 1
      [] p = "predictors" -> 2
      [] p = "labels" -> 3
      [] p = "construct" -> 4
      [] p = "fit" -> 5
      [] p = "define" -> 6
      [] p = "predict" -> 7
      [] p = "done" -> 8
      [] OTHER -> 0

\* how often a method was invoked on the model
CountCalls(name) == Cardinality({i \in 1..Len(calls) : calls[i] = name})

\* the calls of a queried model: constructed, fitted once, then queried
Lifecycle == <<"__init__", "fit", "score", "predict">>

\* C9, the states: the calls on the model are a prefix of construct, fit,
\* score, predict; fit is invoked at most once and exactly once before any
\* query; a finished run has made all four calls; and once fitted, the
\* parameters are those fit computed from X and X is the matrix of the
\* eligible rows, also after score and predict.
C9_LifecycleStates ==
    /\ Len(calls) <= Len(Lifecycle)
    /\ \A i \in 1..Len(calls) : calls[i] = Lifecycle[i]
    /\ CountCalls("fit") <= 1
    /\ (CountCalls("score") + CountCalls("predict") > 0) => CountCalls("fit") = 1
    /\ pc = "done" => calls = Lifecycle
    /\ model_frequentist.fitted =>
          /\ StageOrder(pc) >= 6 \/ (pc = "aborted" /\ StageOrder(err.stage) >= 5)
          /\ model_frequentist = fit(ConstructModel, X, SEED)
          /\ X = [i \in 1..Len(d.rows) |-> Features(csv.rows[d.rows[i].idx + 1])]

\* C9, the steps: a step that leaves the cell goes to the next cell of the
\* notebook or ends the run; no step changes a fitted model or, once built,
\* the matrix.
C9_LifecycleStep ==
    /\ pc' # pc => (pc' = "aborted" \/ StageOrder(pc') = StageOrder(pc) + 1)
    /\ model_frequentist.fitted => model_frequentist' = model_frequentist
    /\ StageOrder(pc) >= 3 => X' = X

\* C9: in every run the model is constructed, fitted exactly once on the
\* Feature Matrix and only then queried; score and predict leave the fitted
\* parameters and the Feature Matrix unchanged; the stages run in the order
\* load, filter, fit, predict, score.
C9_Lifecycle == []C9_LifecycleStates /\ [][C9_LifecycleStep]_vars

\* a finished run: four calls, the model fitted
C9_Witness ==
    /\ pc = "done"
    /\ calls = Lifecycle
    /\ model_frequentist.fitted
    /\ Len(log) = 4

\* the cell of the run that raises, "" when none does
FailStage ==
    IF ContextColumn \notin csv.cols THEN "load"
    ELSE IF \E j \in 1..Len(X_COL_NAMES) : X_COL_NAMES[j] \notin csv.cols THEN "predictors"
    ELSE IF LabelColumn \notin csv.cols THEN "labels"
    ELSE IF Cardinality(Eligible(csv)) < N_COMPONENTS THEN "fit"
    ELSE ""

\* the error the failing cell raises
FailKind == IF FailStage = "fit" THEN "InsufficientData" ELSE "Configuration"

\* the lines logged by the cells before cell number k
LinesBefore(k) == (IF k > 2 THEN 1 ELSE 0) + (IF k > 5 THEN 1 ELSE 0) + (IF k > 7 THEN 2 ELSE 0)

\* C10, the states: when a cell of the run raises, the run never is at a
\* later cell, it ends aborted with the error naming the cell that raised,
\* and what is logged and called is what the cells up to that one log and
\* call; a run in which no cell raises does not abort.
C10_AbortStates ==
    /\ FailStage # "" =>
          /\ pc # "done"
          /\ pc # "aborted" => StageOrder(pc) <= StageOrder(FailStage)
          /\ pc = "aborted" =>
                /\ err = [stage |-> FailStage, kind |-> FailKind]
                /\ Len(log) = LinesBefore(StageOrder(FailStage))
                /\ calls = SubSeq(Lifecycle, 1,
                                  IF FailStage = "fit" THEN 2 ELSE 0)
                /\ fit_frequentist = <<>>
                /\ scored.pc = "idle"
          /\ pc = "aborted" \/ ENABLED Next
    /\ FailStage = "" => pc # "aborted"
    /\ pc # "aborted" => err = NoError

\* C10, the steps: nothing happens after the abort: no cell runs again, no
\* line is logged.
C10_AbortStep == pc = "aborted" => UNCHANGED vars

\* C10: an error raised in a stage aborts the run: the stage is not
\* retried, no later stage runs, no later line is logged, and the run ends
\* in an error that names the stage that failed.
C10_Aborts == []C10_AbortStates /\ [][C10_AbortStep]_vars

\* a run aborted by a missing predictor column, and nothing logged
C10_Witness ==
    /\ pc = "aborted"
    /\ err = [stage |-> "predictors", kind |-> "Configuration"]
    /\ Len(csv.rows) > 0
    /\ log = <<>>

====
